---- MODULE Spec2Model ----
(***************************************************************************)
(* Lesson progress and sequential access control of the LMS backend        *)
(* (src/app/api/course_routes.py over the tables of                        *)
(* src/app/models/course.py).                                              *)
(*                                                                         *)
(* The database is four tables.  Every request handler is a function from  *)
(* the committed tables and the request's arguments to the response and    *)
(* the tables after db.commit(); an action applies one handler.  The       *)
(* session is created with autoflush=False (src/app/database.py:18), so a  *)
(* query inside a handler reads the tables as they were when the request   *)
(* started: rows added and attributes set by the handler are written only  *)
(* by its commit.                                                          *)
(*                                                                         *)
(* A float (score, progress_percentage) is kept as the exact fraction it   *)
(* is the double of: IEEE division and multiplication are correctly        *)
(* rounded and monotone, so the double is a function of the fraction, and  *)
(* two doubles compare as their fractions do when the fractions differ by  *)
(* more than a rounding error, as the fractions of small integers do.      *)
(* Where the code compares a score with an integer, the passing score, the *)
(* double itself is computed (DoubleScore).  The timestamps, titles and    *)
(* the stored answers of an attempt are not read by any handler's control  *)
(* flow and are left out.                                                  *)
(***************************************************************************)
EXTENDS Integers, Sequences, FiniteSets, Bags, TLC

\* ---------------------------------------------------------------- bounds
MaxLessons == 3
MaxAttempts == 2
\* the requests that can be in progress at once, each in its own session
MaxSessions == 2

Users == {1}
Courses == {1, 2}
ContentTypes == {"video", "quiz"}

\* "no row" / None
None == 0
\* a question the submission does not answer (dict.get gives None)
NoAnswer == -1
\* a question dict without a "points" key
NoPoints == -1

\* ------------------------------------------------------------- fractions
RECURSIVE GCD(_, _)
GCD(a, b) == IF b = 0 THEN a ELSE GCD(b, a % b)

\* the value n/d (d > 0, n >= 0) in lowest terms
Frac(n, d) == LET g == GCD(n, d) IN [num |-> n \div g, den |-> d \div g]
FracOfInt(i) == [num |-> i, den |-> 1]
FracGE(x, y) == x.num * y.den >= y.num * x.den
FracGT(x, y) == x.num * y.den > y.num * x.den
FracMin(x, y) == IF FracGE(x, y) THEN y ELSE x

\* ---------------------------------------------------------------- tables
VARIABLES courses, lessons, enrollments, lesson_progress, quiz_attempts,
          sessions
vars == <<courses, lessons, enrollments, lesson_progress, quiz_attempts,
          sessions>>

\* get_db gives every request a session of its own; sessions[s] is what the
\* request in session s has read and will write on commit
Sessions == 1..MaxSessions

\* a session without a request
Idle == [op |-> "idle"]

\* the committed database a request starts from
DB == [courses |-> courses, lessons |-> lessons, enrollments |-> enrollments,
       lesson_progress |-> lesson_progress, quiz_attempts |-> quiz_attempts]

\* Course row; id is the position in the table
CourseRow(i, published) == [id |-> i, is_published |-> published]

\* LessonCreate.quiz_passing_score default
DefaultPassingScore == 70
\* question.get("points", 10)
DefaultPoints == 10

\* the questions every authored quiz carries: the first has no "points" key
QuizQuestions ==
    << [id |-> 1, correct_answer |-> 1, points |-> NoPoints],
       [id |-> 2, correct_answer |-> 0, points |-> 20] >>

\* Lesson row; id is the position in the table (autoincrement primary key)
LessonRow(i, c, t, o) ==
    [id |-> i, course_id |-> c, content_type |-> t, order |-> o,
     quiz_questions |-> IF t = "quiz" THEN QuizQuestions ELSE << >>,
     quiz_passing_score |-> DefaultPassingScore]

\* Enrollment row as inserted by enroll_in_course (column defaults)
EnrollmentRow(i, u, c) ==
    [id |-> i, user_id |-> u, course_id |-> c,
     status |-> "active", progress_percentage |-> FracOfInt(0)]

\* LessonProgress row; the id column is never read, the table is a bag
LessonProgressRow(e, l, done) ==
    [enrollment_id |-> e, lesson_id |-> l, is_completed |-> done]

\* ------------------------------------------------------------- queries
RECURSIVE CountSeq(_, _, _)
\* number of rows at positions i.. of s whose course is c
CountSeq(s, c, i) ==
    IF i > Len(s) THEN 0
    ELSE (IF s[i].course_id = c THEN 1 ELSE 0) + CountSeq(s, c, i + 1)

\* db.query(Lesson).filter(Lesson.course_id == c).count()
TotalLessons(d, c) == CountSeq(d.lessons, c, 1)

RECURSIVE InsertByOrder(_, _)
InsertByOrder(sorted, row) ==
    IF sorted = << >> THEN << row >>
    ELSE IF Head(sorted).order <= row.order
         THEN << Head(sorted) >> \o InsertByOrder(Tail(sorted), row)
         ELSE << row >> \o sorted

RECURSIVE SortByOrder(_)
SortByOrder(s) ==
    IF s = << >> THEN << >>
    ELSE InsertByOrder(SortByOrder(SubSeq(s, 1, Len(s) - 1)), s[Len(s)])

\* db.query(Lesson).filter(Lesson.course_id == c).order_by(Lesson.order).all()
CourseLessons(d, c) ==
    SortByOrder(SelectSeq(d.lessons, LAMBDA r : r.course_id = c))

\* db.query(Lesson).filter(Lesson.id == l, Lesson.course_id == c).first()
LessonOf(d, c, l) ==
    IF l \in 1..Len(d.lessons) /\ d.lessons[l].course_id = c THEN l ELSE None

\* mutant of EnrollmentOf: the filter on the course is missing
EnrollmentOf_UserOnly(d, u, c) ==
    LET hits == {i \in 1..Len(d.enrollments) : d.enrollments[i].user_id = u}
    IN IF hits = {} THEN None ELSE CHOOSE i \in hits : \A j \in hits : i <= j

\* db.query(Enrollment).filter(user_id == u, course_id == c).first()
EnrollmentOf(d, u, c) ==
    LET hits == {i \in 1..Len(d.enrollments) :
                    /\ d.enrollments[i].user_id = u
                    /\ d.enrollments[i].course_id = c}
    IN IF hits = {} THEN None ELSE CHOOSE i \in hits : \A j \in hits : i <= j

\* mutant of ProgressRows: the filter on the enrollment is missing
ProgressRows_AnyEnrollment(d, e, l) ==
    {r \in BagToSet(d.lesson_progress) : r.lesson_id = l}

\* the rows of lesson_progress for (enrollment e, lesson l)
ProgressRows(d, e, l) ==
    {r \in BagToSet(d.lesson_progress) : r.enrollment_id = e /\ r.lesson_id = l}

RECURSIVE BagCount(_, _)
BagCount(b, S) ==
    IF S = {} THEN 0
    ELSE LET r == CHOOSE x \in S : TRUE
         IN CopiesIn(r, b) + BagCount(b, S \ {r})

\* db.query(LessonProgress).filter(enrollment_id == e, is_completed == True).count()
CompletedCount(d, e) ==
    BagCount(d.lesson_progress,
             {r \in BagToSet(d.lesson_progress) :
                 r.enrollment_id = e /\ r.is_completed})

\* the stored progress_percentage of enrollment e in tables d
PercentageOf(d, e) == d.enrollments[e].progress_percentage

\* ------------------------------------------------------------- handlers
\* mutant of enroll_in_course: the test for an existing enrollment is missing
enroll_in_course_NoExisting(d, u, c) ==
    IF c \notin 1..Len(d.courses)
    THEN [status |-> 404, db |-> d]
    ELSE IF ~d.courses[c].is_published
    THEN [status |-> 400, db |-> d]
    ELSE [status |-> 200,
          db |-> [d EXCEPT !.enrollments =
                     Append(@, EnrollmentRow(Len(@) + 1, u, c))]]

\* enroll_in_course
enroll_in_course(d, u, c) ==
    IF c \notin 1..Len(d.courses)
    THEN [status |-> 404, db |-> d]
    ELSE IF ~d.courses[c].is_published
    THEN [status |-> 400, db |-> d]
    ELSE IF EnrollmentOf(d, u, c) # None
    THEN [status |-> 400, db |-> d]
    ELSE [status |-> 200,
          db |-> [d EXCEPT !.enrollments =
                     Append(@, EnrollmentRow(Len(@) + 1, u, c))]]

\* mutant of CompleteRow: a new row is added without looking for one
CompleteRow_AlwaysAdd(d, e, l) ==
    d.lesson_progress (+) SetToBag({LessonProgressRow(e, l, TRUE)})

\* fetch-or-create the LessonProgress row of (e, l) and set is_completed
CompleteRow(d, e, l) ==
    LET rows == ProgressRows(d, e, l)
    IN IF rows = {}
       THEN d.lesson_progress (+) SetToBag({LessonProgressRow(e, l, TRUE)})
       ELSE LET r == CHOOSE x \in rows : TRUE
            IN (d.lesson_progress (-) SetToBag({r}))
                  (+) SetToBag({[r EXCEPT !.is_completed = TRUE]})

\* mark_lesson_complete
mark_lesson_complete(d, u, c, l) ==
    LET e == EnrollmentOf(d, u, c)
    IN IF e = None
       THEN [status |-> 403, db |-> d]
       ELSE LET total_lessons == TotalLessons(d, c)
                completed_lessons == CompletedCount(d, e) + 1
                pct == IF total_lessons > 0
                       THEN Frac(completed_lessons * 100, total_lessons)
                       ELSE FracOfInt(0)
                row == d.enrollments[e]
            IN [status |-> 200,
                progress |-> pct,
                db |-> [d EXCEPT
                   !.lesson_progress = CompleteRow(d, e, l),
                   !.enrollments[e] =
                      [row EXCEPT
                         !.progress_percentage = pct,
                         !.status = IF FracGE(pct, FracOfInt(100))
                                    THEN "completed" ELSE @]]]

\* update_enrollment_progress: the Enrollment row after the recompute
update_enrollment_progress(d, e) ==
    LET row == d.enrollments[e]
        total_lessons == TotalLessons(d, row.course_id)
        completed_lesson_progress == CompletedCount(d, e)
        progress == Frac(completed_lesson_progress * 100, total_lessons)
        pct == FracMin(progress, FracOfInt(100))
    IN IF total_lessons = 0
       THEN [row EXCEPT !.progress_percentage = FracOfInt(0)]
       ELSE [row EXCEPT
               !.progress_percentage = pct,
               !.status = IF FracGE(pct, FracOfInt(100)) THEN "completed" ELSE @]

\* the answer dicts a client sends, question id -> selected option: all wrong,
\* question 1 right and question 2 unanswered, all right
Submissions ==
    { (1 :> 0) @@ (2 :> 1),
      (1 :> 1),
      (1 :> 1) @@ (2 :> 0) }

\* submission.answers.get(q_id)
AnswerOf(answers, q_id) ==
    IF q_id \in DOMAIN answers THEN answers[q_id] ELSE NoAnswer

\* question.get("points", 10)
PointsOf(question) ==
    IF question.points = NoPoints THEN DefaultPoints ELSE question.points

RECURSIVE PointsPossible(_)
PointsPossible(questions) ==
    IF questions = << >> THEN 0
    ELSE PointsOf(Head(questions)) + PointsPossible(Tail(questions))

RECURSIVE PointsEarned(_, _)
PointsEarned(questions, answers) ==
    IF questions = << >> THEN 0
    ELSE (IF AnswerOf(answers, Head(questions).id) = Head(questions).correct_answer
          THEN PointsOf(Head(questions)) ELSE 0)
         + PointsEarned(Tail(questions), answers)

\* ---------------------------------------------------- double arithmetic
\* score = points_earned / points_possible * 100 is computed in IEEE-754
\* doubles: the quotient is rounded to 53 significant binary digits, and so is
\* its product with 100.  Numbers are sequences of binary digits, most
\* significant first.

RECURSIVE TwoTo(_)
TwoTo(s) == IF s = 0 THEN 1 ELSE 2 * TwoTo(s - 1)

\* the n-digit binary numeral of v
BitsOf(v, n) == [i \in 1..n |-> (v \div TwoTo(n - i)) % 2]

\* the number a numeral of at most LimbBits digits stands for
RECURSIVE ValueOf(_)
ValueOf(bits) ==
    IF bits = << >> THEN 0
    ELSE 2 * ValueOf(SubSeq(bits, 1, Len(bits) - 1)) + bits[Len(bits)]

\* long division and multiplication go LimbBits digits at a time
LimbBits == 13

\* the first n binary digits of r/q after the point (0 <= r < q), and what is
\* left of the dividend
RECURSIVE QuotientBits(_, _, _)
QuotientBits(r, q, n) ==
    IF n = 0 THEN [bits |-> << >>, rem |-> r]
    ELSE LET k == IF n >= LimbBits THEN LimbBits ELSE n
             t == r * TwoTo(k)
             rest == QuotientBits(t % q, q, n - k)
         IN [bits |-> BitsOf(t \div q, k) \o rest.bits, rem |-> rest.rem]

\* bits + 1, one digit longer
Increment(bits) ==
    LET b == << 0 >> \o bits
        zeros == {i \in 1..Len(b) : b[i] = 0}
        last == CHOOSE i \in zeros : \A j \in zeros : j <= i
    IN [i \in 1..Len(b) |-> IF i < last THEN b[i] ELSE IF i = last THEN 1 ELSE 0]

\* round-half-to-even of a numeral to its first n digits, one digit longer;
\* inexact says that digits beyond the numeral's last are not all zero
RoundToNearestEven(bits, n, inexact) ==
    LET kept == SubSeq(bits, 1, n)
        dropped == SubSeq(bits, n + 1, Len(bits))
        half == dropped # << >> /\ dropped[1] = 1
        more == inexact \/ \E i \in 2..Len(dropped) : dropped[i] = 1
    IN IF half /\ (more \/ kept[n] = 1) THEN Increment(kept) ELSE << 0 >> \o kept

\* bits * k + carry for k < 128, seven digits longer
RECURSIVE TimesSmall(_, _, _)
TimesSmall(bits, k, carry) ==
    IF bits = << >> THEN BitsOf(carry, 7)
    ELSE LET n == Len(bits)
             w == IF n >= LimbBits THEN LimbBits ELSE n
             t == ValueOf(SubSeq(bits, n - w + 1, n)) * k + carry
         IN TimesSmall(SubSeq(bits, 1, n - w), k, t \div TwoTo(w))
               \o BitsOf(t % TwoTo(w), w)

\* the s with q <= p * 2^s < 2q, for 0 < p <= q
RECURSIVE Shift(_, _)
Shift(p, q) == IF p >= q THEN 0 ELSE 1 + Shift(2 * p, q)

\* the number of leading zeros of a numeral that is not zero
RECURSIVE LeadingZeros(_)
LeadingZeros(bits) == IF Head(bits) = 1 THEN 0 ELSE 1 + LeadingZeros(Tail(bits))

\* the double p / q * 100 for 0 < p <= q, as its integer part and whether it
\* has a fractional part.  The quotient is m * 2^(-s-52) with the 54-digit m,
\* the product's digit j weighs 2^(9-s-j), the rounded product's 2^(10-lead-s-j)
DoubleScore(p, q) ==
    LET s == Shift(p, q)
        qb == QuotientBits(p * TwoTo(s) - q, q, 53)
        m == RoundToNearestEven(<< 1 >> \o qb.bits, 53, qb.rem # 0)
        product == TimesSmall(m, 100, 0)
        lead == LeadingZeros(product)
        r == RoundToNearestEven(SubSeq(product, lead + 1, Len(product)), 53, FALSE)
        whole == 10 - lead - s
    IN [floor |-> IF whole > 0 THEN ValueOf(SubSeq(r, 1, whole)) ELSE 0,
        fraction |-> \E j \in 1..Len(r) : j > whole /\ r[j] = 1]

\* the most points a quiz of the model carries
MaxPoints == 50

\* DoubleScore of every score a quiz of the model can give
DoubleScores ==
    [p \in 1..MaxPoints |-> [q \in p..MaxPoints |-> DoubleScore(p, q)]]

\* score >= quiz_passing_score, for the score of points_earned out of
\* points_possible: a double is at least an integer k when its integer part
\* is; 0 / q * 100 and the score of a quiz without points are 0
ScoreAtLeast(points_earned, points_possible, k) ==
    IF points_possible > 0 /\ points_earned > 0
    THEN DoubleScores[points_earned][points_possible].floor >= k
    ELSE 0 >= k

\* the QuizAttempt rows of (enrollment e, lesson l)
AttemptsOf(d, e, l) ==
    {a \in d.quiz_attempts : a.enrollment_id = e /\ a.lesson_id = l}

\* QuizAttempt row.  Rows are read in insertion (rowid) order, and no query
\* relates rows of different (enrollment, lesson) pairs, so a row carries nth,
\* its position among the rows of its own pair, in place of the id
QuizAttemptRow(d, e, l, earned, possible, sc, ok) ==
    [enrollment_id |-> e, lesson_id |-> l,
     nth |-> Cardinality(AttemptsOf(d, e, l)) + 1, score |-> sc,
     points_earned |-> earned, points_possible |-> possible, passed |-> ok]

\* mutant of StoreAttempt: the new attempt takes the place of the earlier
\* attempts of its enrollment on its lesson
StoreAttempt_Replace(d, attempt) ==
    {a \in d.quiz_attempts :
        a.enrollment_id # attempt.enrollment_id \/ a.lesson_id # attempt.lesson_id}
       \cup {attempt}

\* db.add(attempt): the quiz_attempts table with the new row
StoreAttempt(d, attempt) == d.quiz_attempts \cup {attempt}

\* mutant of InvalidQuizState: the test for a quiz without questions is missing
InvalidQuizState_TypeOnly(lesson) == lesson.content_type # "quiz"

\* the two validation failures of submit_quiz: the lesson is not a quiz, or it
\* is a quiz without questions
InvalidQuizState(lesson) ==
    \/ lesson.content_type # "quiz"
    \/ lesson.quiz_questions = << >>

\* submit_quiz
submit_quiz(d, u, c, l, answers) ==
    LET e == EnrollmentOf(d, u, c)
        lid == LessonOf(d, c, l)
    IN IF e = None THEN [status |-> 403, db |-> d]
       ELSE IF lid = None THEN [status |-> 404, db |-> d]
       ELSE IF InvalidQuizState(d.lessons[lid]) THEN [status |-> 400, db |-> d]
       ELSE
         LET lesson == d.lessons[lid]
             points_possible == PointsPossible(lesson.quiz_questions)
             points_earned == PointsEarned(lesson.quiz_questions, answers)
             score == IF points_possible > 0
                      THEN Frac(points_earned * 100, points_possible)
                      ELSE FracOfInt(0)
             passed == ScoreAtLeast(points_earned, points_possible,
                                    lesson.quiz_passing_score)
             attempt == QuizAttemptRow(d, e, l, points_earned,
                                       points_possible, score, passed)
         IN [status |-> 200,
             score |-> score, points_earned |-> points_earned,
             points_possible |-> points_possible, passed |-> passed,
             db |-> IF passed
                    THEN [d EXCEPT
                            !.quiz_attempts = StoreAttempt(d, attempt),
                            !.lesson_progress = CompleteRow(d, e, l),
                            !.enrollments[e] = update_enrollment_progress(d, e)]
                    ELSE [d EXCEPT !.quiz_attempts = StoreAttempt(d, attempt)]]

\* get_quiz_attempts: the attempts of the enrollment on lesson l, latest first
get_quiz_attempts(d, u, c, l) ==
    LET e == EnrollmentOf(d, u, c)
    IN IF e = None THEN [status |-> 403]
       ELSE LET rows == AttemptsOf(d, e, l)
                n == Cardinality(rows)
            IN [status |-> 200,
                attempts |-> [i \in 1..n |->
                                LET a == CHOOSE r \in rows : r.nth = n + 1 - i
                                IN [score |-> a.score,
                                    points_earned |-> a.points_earned,
                                    points_possible |-> a.points_possible,
                                    passed |-> a.passed]]]

\* mutant of BestAttempt: a later attempt replaces the best also when it ties
RECURSIVE BestAttempt_TieLater(_, _, _)
BestAttempt_TieLater(rows, i, best) ==
    IF i > Cardinality(rows) THEN best
    ELSE LET a == CHOOSE r \in rows : r.nth = i
         IN IF FracGE(a.score, best.score)
            THEN BestAttempt_TieLater(rows, i + 1,
                                      [score |-> a.score, passed |-> a.passed])
            ELSE BestAttempt_TieLater(rows, i + 1, best)

\* mutant of BestAttempt: the attempt with the lowest score is kept
RECURSIVE BestAttempt_Lowest(_, _, _)
BestAttempt_Lowest(rows, i, best) ==
    IF i > Cardinality(rows) THEN best
    ELSE LET a == CHOOSE r \in rows : r.nth = i
         IN IF FracGT(best.score, a.score)
            THEN BestAttempt_Lowest(rows, i + 1,
                                    [score |-> a.score, passed |-> a.passed])
            ELSE BestAttempt_Lowest(rows, i + 1, best)

\* mutant of BestAttempt: every later attempt replaces the best
RECURSIVE BestAttempt_Last(_, _, _)
BestAttempt_Last(rows, i, best) ==
    IF i > Cardinality(rows) THEN best
    ELSE LET a == CHOOSE r \in rows : r.nth = i
         IN BestAttempt_Last(rows, i + 1, [score |-> a.score, passed |-> a.passed])

\* the loop of get_course_progress over the attempts of one lesson, from the
\* i-th on: a later attempt replaces the best only with a strictly greater score
RECURSIVE BestAttempt(_, _, _)
BestAttempt(rows, i, best) ==
    IF i > Cardinality(rows) THEN best
    ELSE LET a == CHOOSE r \in rows : r.nth = i
         IN IF FracGT(a.score, best.score)
            THEN BestAttempt(rows, i + 1, [score |-> a.score, passed |-> a.passed])
            ELSE BestAttempt(rows, i + 1, best)

\* best_quiz_scores: lesson id -> score and passed of the best attempt, for
\* the lessons the enrollment has attempts on
BestQuizScores(d, e) ==
    [l \in {a.lesson_id : a \in {x \in d.quiz_attempts : x.enrollment_id = e}} |->
        LET rows == AttemptsOf(d, e, l)
            first == CHOOSE r \in rows : r.nth = 1
        IN BestAttempt(rows, 2, [score |-> first.score, passed |-> first.passed])]

\* quiz_passed / best_score of a lesson without attempts (Python None)
NoInfo == "None"

\* progress_map.get(lesson.id).is_completed, False without a row
RowCompleted(d, e, l) ==
    LET rows == ProgressRows(d, e, l)
    IN IF rows = {} THEN FALSE ELSE (CHOOSE r \in rows : TRUE).is_completed

\* quiz_passed of a lesson in the view: the best attempt's flag, None for a
\* lesson that is not a quiz or has no attempt
QuizPassed(lesson, best) ==
    IF lesson.content_type = "quiz" /\ lesson.id \in DOMAIN best
    THEN best[lesson.id].passed ELSE NoInfo

\* best_score of a lesson in the view
BestScore(lesson, best) ==
    IF lesson.content_type = "quiz" /\ lesson.id \in DOMAIN best
    THEN best[lesson.id].score ELSE NoInfo

\* mutant of IsCompleted: a quiz counts as completed once it has an attempt
IsCompleted_AnyAttempt(d, e, lesson, best) ==
    IF lesson.content_type = "quiz"
    THEN lesson.id \in DOMAIN best
    ELSE RowCompleted(d, e, lesson.id)

\* mutant of IsCompleted: the quiz override is missing, the row's flag decides
IsCompleted_RowOnly(d, e, lesson, best) == RowCompleted(d, e, lesson.id)

\* is_completed of a lesson in the view: for a quiz the best attempt's passed
\* flag (False without an attempt), else the LessonProgress row's flag
IsCompleted(d, e, lesson, best) ==
    IF lesson.content_type = "quiz"
    THEN (IF lesson.id \in DOMAIN best THEN best[lesson.id].passed ELSE FALSE)
    ELSE RowCompleted(d, e, lesson.id)

\* mutant of IsUnlocked: the first position gets no special treatment and is
\* never taken as preceded by a completed lesson
IsUnlocked_NoFirst(idx, previous_completed) == (idx # 1) /\ previous_completed

\* is_unlocked = idx == 0 or previous_completed (idx counts from 1 here)
IsUnlocked(idx, previous_completed) == (idx = 1) \/ previous_completed

\* the scan of get_course_progress from position idx of the ordered lessons
RECURSIVE ProgressScan(_, _, _, _, _, _)
ProgressScan(d, e, ordered, best, idx, previous_completed) ==
    IF idx > Len(ordered) THEN << >>
    ELSE LET lesson == ordered[idx]
             is_completed == IsCompleted(d, e, lesson, best)
         IN << [lesson_id |-> lesson.id,
                content_type |-> lesson.content_type,
                order |-> lesson.order,
                is_completed |-> is_completed,
                is_unlocked |-> IsUnlocked(idx, previous_completed),
                quiz_passed |-> QuizPassed(lesson, best),
                best_score |-> BestScore(lesson, best)] >>
            \o ProgressScan(d, e, ordered, best, idx + 1, is_completed)

\* get_course_progress
get_course_progress(d, u, c) ==
    LET e == EnrollmentOf(d, u, c)
    IN IF e = None THEN [status |-> 403]
       ELSE [status |-> 200,
             enrollment_id |-> e,
             overall_progress |-> d.enrollments[e].progress_percentage,
             enrollment_status |-> d.enrollments[e].status,
             lessons |-> ProgressScan(d, e, CourseLessons(d, c),
                            BestQuizScores(d, e),
                            1, TRUE)]

\* position of lesson id l in the ordered lessons, 0 when absent
IndexOf(ordered, l) ==
    LET hits == {i \in 1..Len(ordered) : ordered[i].id = l}
    IN IF hits = {} THEN 0 ELSE CHOOSE i \in hits : \A j \in hits : i <= j

\* mutant of PrerequisiteMet: any attempt on a quiz satisfies it, passed or not
PrerequisiteMet_AnyAttempt(d, e, prev_lesson) ==
    IF prev_lesson.content_type = "quiz"
    THEN AttemptsOf(d, e, prev_lesson.id) # {}
    ELSE \E r \in ProgressRows(d, e, prev_lesson.id) : r.is_completed

\* mutant of PrerequisiteMet: a quiz is tested like any other lesson, by its
\* LessonProgress row
PrerequisiteMet_RowOnly(d, e, prev_lesson) ==
    \E r \in ProgressRows(d, e, prev_lesson.id) : r.is_completed

\* the prerequisite test of can_access_lesson for one earlier lesson
PrerequisiteMet(d, e, prev_lesson) ==
    IF prev_lesson.content_type = "quiz"
    THEN \E a \in AttemptsOf(d, e, prev_lesson.id) : a.passed
    ELSE \E r \in ProgressRows(d, e, prev_lesson.id) : r.is_completed

\* mutant of FirstUnmet: the scan reports the last unmet prerequisite
FirstUnmet_Last(unmet) == CHOOSE x \in unmet : \A y \in unmet : x >= y

\* the position at which the forward scan over the earlier lessons returns:
\* the first one whose prerequisite test fails
FirstUnmet(unmet) == CHOOSE x \in unmet : \A y \in unmet : x <= y

\* can_access_lesson
can_access_lesson(d, u, c, l) ==
    LET e == EnrollmentOf(d, u, c)
        ordered == CourseLessons(d, c)
        target_index == IndexOf(ordered, l)
        unmet == {i \in 1..(target_index - 1) : ~PrerequisiteMet(d, e, ordered[i])}
    IN IF e = None
       THEN [can_access |-> FALSE, reason |-> "Not enrolled in this course",
             blocking_lesson_id |-> None]
       ELSE IF target_index = 0
       THEN [can_access |-> FALSE, reason |-> "Lesson not found",
             blocking_lesson_id |-> None]
       ELSE IF target_index = 1
       THEN [can_access |-> TRUE, reason |-> "First lesson",
             blocking_lesson_id |-> None]
       ELSE IF unmet # {}
       THEN LET i == FirstUnmet(unmet)
            IN [can_access |-> FALSE,
                reason |-> IF ordered[i].content_type = "quiz"
                           THEN "You must pass the quiz"
                           ELSE "You must complete",
                blocking_lesson_id |-> ordered[i].id]
       ELSE [can_access |-> TRUE, reason |-> "All prerequisites completed",
             blocking_lesson_id |-> None]

\* update_lesson; update_data holds the fields the request body sets
\* (model_dump(exclude_unset=True)), here content_type, quiz_questions and
\* quiz_passing_score
update_lesson(d, c, l, update_data) ==
    LET lid == LessonOf(d, c, l)
    IN IF lid = None THEN [status |-> 404, db |-> d]
       ELSE [status |-> 200,
             db |-> [d EXCEPT !.lessons[lid] =
                [@ EXCEPT
                   !.content_type =
                      IF "content_type" \in DOMAIN update_data
                      THEN update_data.content_type ELSE @,
                   !.quiz_questions =
                      IF "quiz_questions" \in DOMAIN update_data
                      THEN update_data.quiz_questions ELSE @,
                   !.quiz_passing_score =
                      IF "quiz_passing_score" \in DOMAIN update_data
                      THEN update_data.quiz_passing_score ELSE @]]]

\* ------------------------------------------------------------- actions
\* the lessons of course c
OwnLessonIds(c) == {i \in 1..Len(lessons) : lessons[i].course_id = c}

\* a lesson id that is no lesson of course c: the smallest one, a lesson of
\* another course when there is one, else the id past the table
StrayLessonId(c) ==
    LET other == (1..(Len(lessons) + 1)) \ OwnLessonIds(c)
    IN CHOOSE i \in other : \A j \in other : i <= j

Enroll(u, c) ==
    /\ enrollments' = enroll_in_course(DB, u, c).db.enrollments
    /\ UNCHANGED <<courses, lessons, lesson_progress, quiz_attempts, sessions>>

MarkLessonComplete(u, c, l) ==
    LET r == mark_lesson_complete(DB, u, c, l)
    IN /\ enrollments' = r.db.enrollments
       /\ lesson_progress' = r.db.lesson_progress
       /\ UNCHANGED <<courses, lessons, quiz_attempts, sessions>>

SubmitQuiz(u, c, l, answers) ==
    LET r == submit_quiz(DB, u, c, l, answers)
    IN /\ Cardinality(quiz_attempts) < MaxAttempts
       /\ enrollments' = r.db.enrollments
       /\ lesson_progress' = r.db.lesson_progress
       /\ quiz_attempts' = r.db.quiz_attempts
       /\ UNCHANGED <<courses, lessons, sessions>>

\* the passing scores an author sets
PassingScores == {30, 70}

\* the request bodies of the author's edits: a new passing score
UpdateData == {[quiz_passing_score |-> p] : p \in PassingScores}

\* the lessons an author's edit names: the quizzes of the course
EditedLessonIds(c) ==
    {l \in OwnLessonIds(c) : lessons[l].content_type = "quiz"}

UpdateLesson(c, l, update_data) ==
    /\ lessons' = update_lesson(DB, c, l, update_data).db.lessons
    /\ UNCHANGED <<courses, enrollments, lesson_progress, quiz_attempts,
                   sessions>>

\* the lessons table after a sequence of create_lesson calls:
\* order is the number of lessons the course had when the lesson was created
RECURSIVE Authored(_)
Authored(shape) ==
    IF shape = << >> THEN << >>
    ELSE LET before == Authored(SubSeq(shape, 1, Len(shape) - 1))
             s == shape[Len(shape)]
         IN Append(before,
                   LessonRow(Len(shape), s[1], s[2], CountSeq(before, s[1], 1)))

Catalogues ==
    UNION {[1..n -> {1} \X ContentTypes] : n \in 0..MaxLessons}

\* course 1 is published with its lessons authored, course 2 is a draft
\* without lessons; nobody is enrolled.  The learners are not admins.
Init ==
    /\ courses = << CourseRow(1, TRUE), CourseRow(2, FALSE) >>
    /\ lessons \in {Authored(shape) : shape \in Catalogues}
    /\ enrollments = << >>
    /\ lesson_progress = EmptyBag
    /\ quiz_attempts = {}
    /\ sessions = [s \in Sessions |-> Idle]

\* as Init, with course 2 published as well
InitOpen ==
    /\ courses = << CourseRow(1, TRUE), CourseRow(2, TRUE) >>
    /\ lessons \in {Authored(shape) : shape \in Catalogues}
    /\ enrollments = << >>
    /\ lesson_progress = EmptyBag
    /\ quiz_attempts = {}
    /\ sessions = [s \in Sessions |-> Idle]

\* the learners' requests, each naming a lesson of the course it names
Next ==
    \/ \E u \in Users, c \in Courses : Enroll(u, c)
    \/ \E u \in Users, c \in Courses :
          \E l \in OwnLessonIds(c) : MarkLessonComplete(u, c, l)
    \/ \E u \in Users, c \in Courses :
          \E l \in OwnLessonIds(c), answers \in Submissions :
             SubmitQuiz(u, c, l, answers)

Spec == Init /\ [][Next]_vars

\* the learners' requests and the author's lesson edits
NextAuthoring ==
    \/ Next
    \/ \E c \in Courses :
          \E l \in EditedLessonIds(c), update_data \in UpdateData :
             UpdateLesson(c, l, update_data)

SpecAuthoring == Init /\ [][NextAuthoring]_vars

\* the learners' requests and the author's removal of a quiz's questions
NextEmptyQuiz ==
    \/ Next
    \/ \E c \in Courses :
          \E l \in EditedLessonIds(c) :
             UpdateLesson(c, l, [quiz_questions |-> << >>])

SpecEmptyQuiz == Init /\ [][NextEmptyQuiz]_vars

\* the questions of a quiz whose author gave them 29 and 21 points
WeightedQuestions ==
    << [id |-> 1, correct_answer |-> 1, points |-> 29],
       [id |-> 2, correct_answer |-> 0, points |-> 21] >>

\* the request body of the author's edit: the weighted questions, to be
\* passed with 58 percent
ScoringData ==
    {[quiz_questions |-> WeightedQuestions, quiz_passing_score |-> 58]}

\* the learners' requests and the author's edit of a quiz's questions and
\* passing score
NextScoring ==
    \/ Next
    \/ \E c \in Courses :
          \E l \in EditedLessonIds(c), update_data \in ScoringData :
             UpdateLesson(c, l, update_data)

SpecScoring == Init /\ [][NextScoring]_vars

\* both courses published: the learners' requests and requests naming a
\* lesson id outside the course
NextAnyLesson ==
    \/ Next
    \/ \E u \in Users, c \in Courses :
          MarkLessonComplete(u, c, StrayLessonId(c))
    \/ \E u \in Users, c \in Courses, answers \in Submissions :
          SubmitQuiz(u, c, StrayLessonId(c), answers)

SpecAnyLesson == InitOpen /\ [][NextAnyLesson]_vars

\* two learners
Learners == {1, 2}

\* the requests of two learners, each naming a lesson of the course it names
NextTwoLearners ==
    \/ \E u \in Learners, c \in Courses : Enroll(u, c)
    \/ \E u \in Learners, c \in Courses :
          \E l \in OwnLessonIds(c) : MarkLessonComplete(u, c, l)
    \/ \E u \in Learners, c \in Courses :
          \E l \in OwnLessonIds(c), answers \in Submissions :
             SubmitQuiz(u, c, l, answers)

\* as Init, with the catalogues that leave room for a second learner's rows
InitShort ==
    /\ courses = << CourseRow(1, TRUE), CourseRow(2, FALSE) >>
    /\ lessons \in {Authored(shape) :
                      shape \in {x \in Catalogues : Len(x) < MaxLessons}}
    /\ enrollments = << >>
    /\ lesson_progress = EmptyBag
    /\ quiz_attempts = {}
    /\ sessions = [s \in Sessions |-> Idle]

SpecTwoLearners == InitShort /\ [][NextTwoLearners]_vars

\* ------------------------------------------- requests in separate sessions
\* Two server processes on one database run their handlers side by side.
\* The queries of a handler read the committed tables; its commit writes the
\* rows the session added and the attributes it changed.

\* db.add(progress) at commit: the INSERT of a LessonProgress row that the
\* session created, is_completed set
InsertProgress(table, e, l) ==
    table (+) SetToBag({LessonProgressRow(e, l, TRUE)})

\* enroll_in_course up to its commit: the request passed the checks
BeginEnroll(s, u, c) ==
    /\ sessions[s].op = "idle"
    /\ enroll_in_course(DB, u, c).status = 200
    /\ sessions' = [sessions EXCEPT ![s] =
                      [op |-> "enroll", user_id |-> u, course_id |-> c]]
    /\ UNCHANGED <<courses, lessons, enrollments, lesson_progress, quiz_attempts>>

\* the commit of enroll_in_course: the INSERT of the Enrollment
CommitEnroll(s) ==
    /\ sessions[s].op = "enroll"
    /\ enrollments' = Append(enrollments,
                             EnrollmentRow(Len(enrollments) + 1,
                                           sessions[s].user_id,
                                           sessions[s].course_id))
    /\ sessions' = [sessions EXCEPT ![s] = Idle]
    /\ UNCHANGED <<courses, lessons, lesson_progress, quiz_attempts>>

\* mark_lesson_complete up to its commit: the session holds the enrollment as
\* loaded, whether the LessonProgress row was found, and the percentage
\* computed from the two counts
BeginComplete(s, u, c, l) ==
    LET e == EnrollmentOf(DB, u, c)
        r == mark_lesson_complete(DB, u, c, l)
    IN /\ sessions[s].op = "idle"
       /\ r.status = 200
       /\ sessions' = [sessions EXCEPT ![s] =
                         [op |-> "complete", enrollment_id |-> e,
                          course_id |-> c, lesson_id |-> l,
                          found |-> ProgressRows(DB, e, l) # {},
                          loaded |-> PercentageOf(DB, e),
                          progress_percentage |-> r.progress]]
       /\ UNCHANGED <<courses, lessons, enrollments, lesson_progress,
                      quiz_attempts>>

\* the commit of mark_lesson_complete: the row found is updated or the new
\* row inserted, and the Enrollment's changed attributes are written over the
\* row as it is now
CommitComplete(s) ==
    LET w == sessions[s]
    IN /\ w.op = "complete"
       /\ lesson_progress' =
             IF w.found THEN CompleteRow(DB, w.enrollment_id, w.lesson_id)
             ELSE InsertProgress(lesson_progress, w.enrollment_id, w.lesson_id)
       /\ enrollments' = [enrollments EXCEPT ![w.enrollment_id] =
             [@ EXCEPT
                !.progress_percentage =
                   IF w.progress_percentage # w.loaded
                   THEN w.progress_percentage ELSE @,
                !.status = IF FracGE(w.progress_percentage, FracOfInt(100))
                           THEN "completed" ELSE @]]
       /\ sessions' = [sessions EXCEPT ![s] = Idle]
       /\ UNCHANGED <<courses, lessons, quiz_attempts>>

\* enroll and mark-complete requests, each in a session of its own, in any
\* interleaving of their reads and commits
NextInterleaved ==
    \/ \E s \in Sessions, u \in Users, c \in Courses : BeginEnroll(s, u, c)
    \/ \E s \in Sessions : CommitEnroll(s)
    \/ \E s \in Sessions, u \in Users, c \in Courses :
          \E l \in OwnLessonIds(c) : BeginComplete(s, u, c, l)
    \/ \E s \in Sessions : CommitComplete(s)

SpecInterleaved == Init /\ [][NextInterleaved]_vars

\* ------------------------------------------------------------ properties
\* the (user, course) pairs that have an enrollment
Enrolled == {uc \in Users \X Courses : EnrollmentOf(DB, uc[1], uc[2]) # None}

\* some QuizAttempt of (enrollment e, lesson l) in tables d has passed == true
SomeAttemptPassed(d, e, l) ==
    \E a \in d.quiz_attempts :
       a.enrollment_id = e /\ a.lesson_id = l /\ a.passed

\* effectively complete: a quiz that was passed, another lesson with a
\* LessonProgress row whose is_completed is true
EffectivelyComplete(d, e, l) ==
    IF d.lessons[l].content_type = "quiz"
    THEN SomeAttemptPassed(d, e, l)
    ELSE \E r \in BagToSet(d.lesson_progress) :
            r.enrollment_id = e /\ r.lesson_id = l /\ r.is_completed

\* the progress view of an enrolled pair
ViewOf(d, uc) == get_course_progress(d, uc[1], uc[2])

\* C1: in the progress view every entry after the first is unlocked exactly
\* when the lesson before it is effectively complete
C1_SequentialUnlock ==
    \A uc \in Enrolled :
       LET v == ViewOf(DB, uc)
       IN \A i \in 2..Len(v.lessons) :
             v.lessons[i].is_unlocked
                <=> EffectivelyComplete(DB, v.enrollment_id, v.lessons[i - 1].lesson_id)

\* a view in which a passed quiz unlocks the lesson after it while a quiz that
\* was only marked complete keeps the lesson after it locked
C1_Witness ==
    \E uc \in Enrolled :
       LET v == ViewOf(DB, uc)
       IN /\ Len(v.lessons) >= 3
          /\ v.lessons[1].content_type = "quiz"
          /\ v.lessons[2].content_type = "quiz"
          /\ v.lessons[2].is_unlocked
          /\ ~v.lessons[3].is_unlocked
          /\ RowCompleted(DB, v.enrollment_id, v.lessons[2].lesson_id)

\* C2: can_access_lesson grants a lesson of the enrolled course exactly when
\* the progress view reports it unlocked
C2_AccessAgreesWithView ==
    \A uc \in Enrolled :
       LET v == ViewOf(DB, uc)
       IN \A i \in 1..Len(v.lessons) :
             can_access_lesson(DB, uc[1], uc[2], v.lessons[i].lesson_id).can_access
                <=> v.lessons[i].is_unlocked

\* C3: marking the same lesson of the enrolled course complete twice in a row
\* leaves progress_percentage at the value it had after the first call
C3_IdempotentCompletion ==
    \A uc \in Enrolled : \A l \in OwnLessonIds(uc[2]) :
       LET e == EnrollmentOf(DB, uc[1], uc[2])
           once == mark_lesson_complete(DB, uc[1], uc[2], l)
           twice == mark_lesson_complete(once.db, uc[1], uc[2], l)
       IN PercentageOf(twice.db, e) = PercentageOf(once.db, e)

\* C4: every enrollment's stored progress_percentage lies in [0, 100]
C4_PercentageBound ==
    \A e \in 1..Len(enrollments) :
       /\ FracGE(PercentageOf(DB, e), FracOfInt(0))
       /\ FracGE(FracOfInt(100), PercentageOf(DB, e))

\* C5: an enrollment's status is "completed" exactly when its stored
\* progress_percentage is at least 100
C5_StatusIffComplete ==
    \A e \in 1..Len(enrollments) :
       (enrollments[e].status = "completed")
          <=> FracGE(PercentageOf(DB, e), FracOfInt(100))

\* C6: after a passing quiz submission progress_percentage is the number of
\* completed LessonProgress rows of the enrollment, the quiz's row included,
\* over the lessons of the course, times 100
C6_QuizPassPercentage ==
    \A uc \in Enrolled : \A l \in OwnLessonIds(uc[2]), answers \in Submissions :
       LET e == EnrollmentOf(DB, uc[1], uc[2])
           r == submit_quiz(DB, uc[1], uc[2], l, answers)
       IN (r.status = 200 /\ r.passed)
             => PercentageOf(r.db, e)
                   = Frac(CompletedCount(r.db, e) * 100, TotalLessons(r.db, uc[2]))

\* C7: a quiz lesson is completed in the progress view exactly when some
\* attempt on it has passed, also when the passing score is edited in between
C7_QuizCompletionEquivalence ==
    \A uc \in Enrolled :
       LET v == ViewOf(DB, uc)
       IN \A i \in 1..Len(v.lessons) :
             v.lessons[i].content_type = "quiz"
                => (v.lessons[i].is_completed
                      <=> SomeAttemptPassed(DB, v.enrollment_id, v.lessons[i].lesson_id))

\* C8: a quiz lesson has a completed LessonProgress row only if some attempt
\* on it has passed
C8_QuizRowOnlyIfPassed ==
    \A r \in BagToSet(lesson_progress) :
       (/\ r.is_completed
        /\ r.lesson_id \in 1..Len(lessons)
        /\ lessons[r.lesson_id].content_type = "quiz")
          => SomeAttemptPassed(DB, r.enrollment_id, r.lesson_id)

\* C9: marking a quiz without a passed attempt complete leaves it incomplete in
\* the progress view, and leaves the lesson after it locked in the view and
\* denied by can_access_lesson
C9_MarkDoesNotPassQuiz ==
    \A uc \in Enrolled :
       LET e == EnrollmentOf(DB, uc[1], uc[2])
           ordered == CourseLessons(DB, uc[2])
       IN \A i \in 1..Len(ordered) :
             (/\ ordered[i].content_type = "quiz"
              /\ ~SomeAttemptPassed(DB, e, ordered[i].id))
                => LET after == mark_lesson_complete(DB, uc[1], uc[2],
                                                     ordered[i].id).db
                       v == ViewOf(after, uc).lessons
                   IN /\ v[i].lesson_id = ordered[i].id
                      /\ ~v[i].is_completed
                      /\ i < Len(v)
                            => /\ ~v[i + 1].is_unlocked
                               /\ ~can_access_lesson(after, uc[1], uc[2],
                                       v[i + 1].lesson_id).can_access

\* a quiz that was marked complete without a passed attempt is the only
\* lesson in the way of the lesson after it
C9_Witness ==
    \E uc \in Enrolled :
       LET e == EnrollmentOf(DB, uc[1], uc[2])
           ordered == CourseLessons(DB, uc[2])
       IN \E i \in 1..(Len(ordered) - 1) :
             /\ ordered[i].content_type = "quiz"
             /\ RowCompleted(DB, e, ordered[i].id)
             /\ ~SomeAttemptPassed(DB, e, ordered[i].id)
             /\ \A j \in 1..(i - 1) : EffectivelyComplete(DB, e, ordered[j].id)
             /\ i > 1

\* C10: mark_lesson_complete and submit_quiz with a lesson id outside the
\* stated course answer 404 and change nothing
C10_NotFoundOnMutation ==
    \A uc \in Enrolled :
       LET l == StrayLessonId(uc[2])
           m == mark_lesson_complete(DB, uc[1], uc[2], l)
       IN /\ m.status = 404
          /\ m.db = DB
          /\ \A answers \in Submissions :
                LET q == submit_quiz(DB, uc[1], uc[2], l, answers)
                IN q.status = 404 /\ q.db = DB

\* C11: for an enrollment in a course with at least one lesson the first entry
\* of the progress view is unlocked and can_access_lesson grants the first
\* lesson, whatever is complete
C11_FirstLessonUnlocked ==
    \A uc \in Enrolled :
       LET v == ViewOf(DB, uc)
       IN Len(v.lessons) >= 1
             => /\ v.lessons[1].is_unlocked
                /\ can_access_lesson(DB, uc[1], uc[2],
                                     v.lessons[1].lesson_id).can_access

\* the first lesson is not complete while a later one is
C11_Witness ==
    \E uc \in Enrolled :
       LET v == ViewOf(DB, uc)
       IN /\ Len(v.lessons) >= 2
          /\ ~EffectivelyComplete(DB, v.enrollment_id, v.lessons[1].lesson_id)
          /\ EffectivelyComplete(DB, v.enrollment_id, v.lessons[2].lesson_id)

\* the positions before k, in the ordered lessons of the enrolled pair's
\* course, of the lessons that are not effectively complete
Incomplete(d, e, ordered, k) ==
    {j \in 1..(k - 1) : ~EffectivelyComplete(d, e, ordered[j].id)}

\* C12: when can_access_lesson denies a lesson after the first of the enrolled
\* course, blocking_lesson_id is the earliest lesson before it that is not
\* effectively complete
C12_BlockingIsFirstIncomplete ==
    \A uc \in Enrolled :
       LET e == EnrollmentOf(DB, uc[1], uc[2])
           ordered == CourseLessons(DB, uc[2])
       IN \A k \in 2..Len(ordered) :
             LET r == can_access_lesson(DB, uc[1], uc[2], ordered[k].id)
                 open == Incomplete(DB, e, ordered, k)
             IN ~r.can_access
                   => /\ open # {}
                      /\ \E j \in open :
                            /\ \A i \in open : j <= i
                            /\ r.blocking_lesson_id = ordered[j].id

\* a denial with two incomplete lessons before the target, the later of them
\* directly before it
C12_Witness ==
    \E uc \in Enrolled :
       LET e == EnrollmentOf(DB, uc[1], uc[2])
           ordered == CourseLessons(DB, uc[2])
       IN \E k \in 2..Len(ordered) :
             /\ ~can_access_lesson(DB, uc[1], uc[2], ordered[k].id).can_access
             /\ Cardinality(Incomplete(DB, e, ordered, k)) >= 2
             /\ lesson_progress # EmptyBag

\* C13: can_access_lesson grants the lesson at position k of the enrolled
\* course exactly when every lesson before it is satisfied: a quiz by an
\* attempt that passed, another lesson by a completed LessonProgress row
C13_AccessDecisionRule ==
    \A uc \in Enrolled :
       LET e == EnrollmentOf(DB, uc[1], uc[2])
           ordered == CourseLessons(DB, uc[2])
       IN \A k \in 1..Len(ordered) :
             can_access_lesson(DB, uc[1], uc[2], ordered[k].id).can_access
                <=> \A j \in 1..(k - 1) :
                       IF ordered[j].content_type = "quiz"
                       THEN \E a \in quiz_attempts :
                               /\ a.enrollment_id = e
                               /\ a.lesson_id = ordered[j].id
                               /\ a.passed
                       ELSE \E r \in BagToSet(lesson_progress) :
                               /\ r.enrollment_id = e
                               /\ r.lesson_id = ordered[j].id
                               /\ r.is_completed

\* a lesson is granted behind a quiz that was failed once and passed once
C13_Witness ==
    \E uc \in Enrolled :
       LET e == EnrollmentOf(DB, uc[1], uc[2])
           ordered == CourseLessons(DB, uc[2])
       IN \E k \in 2..Len(ordered) :
             /\ can_access_lesson(DB, uc[1], uc[2], ordered[k].id).can_access
             /\ \E j \in 1..(k - 1) :
                   /\ ordered[j].content_type = "quiz"
                   /\ \E a \in AttemptsOf(DB, e, ordered[j].id) : ~a.passed

\* C14: for a quiz with attempts the view's best_score is the greatest score
\* among the attempts of the enrollment on it, in whatever order they were
\* submitted, and quiz_passed is the passed flag of an attempt with that score
C14_BestAttemptTracking ==
    \A uc \in Enrolled :
       LET v == ViewOf(DB, uc)
       IN \A i \in 1..Len(v.lessons) :
             LET rows == AttemptsOf(DB, v.enrollment_id, v.lessons[i].lesson_id)
             IN (v.lessons[i].content_type = "quiz" /\ rows # {})
                   => \E a \in rows :
                         /\ \A b \in rows : FracGE(a.score, b.score)
                         /\ v.lessons[i].best_score = a.score
                         /\ v.lessons[i].quiz_passed = a.passed

\* a quiz whose first attempt scored more than its second, and passed
C14_Witness ==
    \E uc \in Enrolled :
       LET v == ViewOf(DB, uc)
       IN \E i \in 1..Len(v.lessons) :
             \E a, b \in AttemptsOf(DB, v.enrollment_id, v.lessons[i].lesson_id) :
                /\ a.nth < b.nth
                /\ FracGT(a.score, b.score)
                /\ a.passed /\ ~b.passed

\* C15: a failing submission adds its QuizAttempt (passed false) and changes no
\* LessonProgress row and no enrollment; a quiz that was not completed stays
\* so in the view, and a following lesson that was locked stays locked in the
\* view and denied by can_access_lesson
C15_FailingSubmissionFrame ==
    \A uc \in Enrolled :
       LET e == EnrollmentOf(DB, uc[1], uc[2])
           before == ViewOf(DB, uc).lessons
       IN \A i \in 1..Len(before) :
             LET l == before[i].lesson_id
                 denied == /\ i < Len(before)
                           /\ ~can_access_lesson(DB, uc[1], uc[2],
                                   before[i + 1].lesson_id).can_access
             IN \A answers \in Submissions :
                   LET r == submit_quiz(DB, uc[1], uc[2], l, answers)
                       added == r.db.quiz_attempts \ quiz_attempts
                   IN (r.status = 200 /\ ~r.passed)
                         => /\ quiz_attempts \subseteq r.db.quiz_attempts
                            /\ Cardinality(added) = 1
                            /\ \A a \in added :
                                  /\ a.enrollment_id = e
                                  /\ a.lesson_id = l
                                  /\ ~a.passed
                            /\ r.db.lesson_progress = lesson_progress
                            /\ r.db.enrollments = enrollments
                            /\ LET after == ViewOf(r.db, uc).lessons
                               IN /\ ~before[i].is_completed
                                        => ~after[i].is_completed
                                  /\ (i < Len(before) /\ ~before[i + 1].is_unlocked)
                                        => ~after[i + 1].is_unlocked
                            /\ denied
                                  => ~can_access_lesson(r.db, uc[1], uc[2],
                                         before[i + 1].lesson_id).can_access

\* an accessible quiz with a lesson after it has a failed attempt and no
\* passed one
C15_Witness ==
    \E uc \in Enrolled :
       LET e == EnrollmentOf(DB, uc[1], uc[2])
           v == ViewOf(DB, uc).lessons
       IN \E i \in 1..(Len(v) - 1) :
             /\ v[i].content_type = "quiz"
             /\ v[i].is_unlocked
             /\ AttemptsOf(DB, e, v[i].lesson_id) # {}
             /\ ~SomeAttemptPassed(DB, e, v[i].lesson_id)
             /\ ~v[i + 1].is_unlocked

\* C16: submit_quiz on a lesson that is not a quiz, or on a quiz without
\* questions, answers 400 and leaves every table as it was
C16_InvalidQuizState ==
    \A uc \in Enrolled : \A l \in OwnLessonIds(uc[2]), answers \in Submissions :
       LET r == submit_quiz(DB, uc[1], uc[2], l, answers)
       IN (lessons[l].content_type # "quiz" \/ Len(lessons[l].quiz_questions) = 0)
             => /\ r.status = 400
                /\ r.db.quiz_attempts = quiz_attempts
                /\ r.db.lesson_progress = lesson_progress
                /\ r.db.enrollments = enrollments

\* an enrolled course holds a lesson that is not a quiz and a quiz that lost
\* its questions after an attempt on it was stored
C16_Witness ==
    \E uc \in Enrolled :
       LET e == EnrollmentOf(DB, uc[1], uc[2])
       IN /\ \E l \in OwnLessonIds(uc[2]) : lessons[l].content_type # "quiz"
          /\ \E l \in OwnLessonIds(uc[2]) :
                /\ lessons[l].content_type = "quiz"
                /\ lessons[l].quiz_questions = << >>
                /\ AttemptsOf(DB, e, l) # {}

\* the (user, course) pairs without an Enrollment row
NotEnrolled ==
    {uc \in Users \X Courses :
        \A i \in 1..Len(enrollments) :
           enrollments[i].user_id # uc[1] \/ enrollments[i].course_id # uc[2]}

\* C17: for a user without an enrollment in the course mark_lesson_complete,
\* submit_quiz, get_course_progress and get_quiz_attempts answer 403, and the
\* two writers leave every table as it was
C17_NotEnrolledDenied ==
    \A uc \in NotEnrolled : \A l \in 1..(Len(lessons) + 1) :
       LET m == mark_lesson_complete(DB, uc[1], uc[2], l)
       IN /\ m.status = 403
          /\ m.db = DB
          /\ \A answers \in Submissions :
                LET q == submit_quiz(DB, uc[1], uc[2], l, answers)
                IN q.status = 403 /\ q.db = DB
          /\ get_course_progress(DB, uc[1], uc[2]).status = 403
          /\ get_quiz_attempts(DB, uc[1], uc[2], l).status = 403

\* a user enrolled in one course, with a completed row and an attempt there,
\* has no enrollment in another course
C17_Witness ==
    /\ NotEnrolled # {}
    /\ Enrolled # {}
    /\ lesson_progress # EmptyBag
    /\ quiz_attempts # {}

\* C18: quiz_attempts is an append-only log.  A submission that is accepted
\* adds exactly one row, for its enrollment and lesson, and keeps the rows
\* there were; a rejected submission and mark_lesson_complete leave the table
\* as it was; and no step of the system removes or alters a stored row
C18_AttemptsAppendOnly ==
    /\ [](\A uc \in Users \X Courses :
            \A l \in 1..(Len(lessons) + 1) :
               LET e == EnrollmentOf(DB, uc[1], uc[2])
                   m == mark_lesson_complete(DB, uc[1], uc[2], l)
               IN /\ m.db.quiz_attempts = quiz_attempts
                  /\ \A answers \in Submissions :
                        LET q == submit_quiz(DB, uc[1], uc[2], l, answers)
                        IN IF q.status = 200
                           THEN /\ quiz_attempts \subseteq q.db.quiz_attempts
                                /\ LET added == q.db.quiz_attempts \ quiz_attempts
                                   IN /\ Cardinality(added) = 1
                                      /\ \A a \in added :
                                            /\ a.enrollment_id = e
                                            /\ a.lesson_id = l
                           ELSE q.db.quiz_attempts = quiz_attempts)
    /\ [][quiz_attempts \subseteq quiz_attempts']_vars

\* one enrollment has a failed and a passed attempt on the same quiz
C18_Witness ==
    \E a, b \in quiz_attempts :
       /\ a.enrollment_id = b.enrollment_id
       /\ a.lesson_id = b.lesson_id
       /\ a.nth < b.nth
       /\ a.passed /\ ~b.passed

\* the number of LessonProgress rows of (enrollment e, lesson l) in tables d
RowCount(d, e, l) == BagCount(d.lesson_progress, ProgressRows(d, e, l))

\* C19: there is at most one LessonProgress row per enrollment and lesson, and
\* a completion, by mark_lesson_complete or by a passing submission, adds the
\* row when the lesson has none and otherwise reuses the one there is
C19_LessonProgressUnique ==
    /\ \A r \in BagToSet(lesson_progress) :
          RowCount(DB, r.enrollment_id, r.lesson_id) <= 1
    /\ \A uc \in Enrolled : \A l \in OwnLessonIds(uc[2]) :
          LET e == EnrollmentOf(DB, uc[1], uc[2])
              had == RowCount(DB, e, l)
              m == mark_lesson_complete(DB, uc[1], uc[2], l).db
          IN /\ RowCount(m, e, l) = 1
             /\ BagCardinality(m.lesson_progress)
                   = BagCardinality(lesson_progress) + (1 - had)
             /\ \A answers \in Submissions :
                   LET q == submit_quiz(DB, uc[1], uc[2], l, answers)
                   IN (q.status = 200 /\ q.passed)
                         => /\ RowCount(q.db, e, l) = 1
                            /\ BagCardinality(q.db.lesson_progress)
                                  = BagCardinality(lesson_progress) + (1 - had)

\* a lesson was completed more than once: the stored percentage counts it
\* twice, and a quiz has both a passed attempt and its row
C19_Witness ==
    \E e \in 1..Len(enrollments) :
       /\ FracGT(PercentageOf(DB, e), FracOfInt(100))
       /\ \E l \in 1..Len(lessons) :
             /\ SomeAttemptPassed(DB, e, l)
             /\ RowCount(DB, e, l) = 1

\* C20: there is at most one Enrollment per user and course, and an enroll
\* request of an enrolled user answers 400 and leaves every enrollment, with
\* its progress, as it was
C20_EnrollmentUnique ==
    /\ \A i, j \in 1..Len(enrollments) :
          (/\ enrollments[i].user_id = enrollments[j].user_id
           /\ enrollments[i].course_id = enrollments[j].course_id) => i = j
    /\ \A uc \in (Users \X Courses) \ NotEnrolled :
          LET r == enroll_in_course(DB, uc[1], uc[2])
          IN r.status = 400 /\ r.db = DB

\* an enrolled user whose enrollment has recorded progress
C20_Witness ==
    \E uc \in (Users \X Courses) \ NotEnrolled :
       LET e == EnrollmentOf(DB, uc[1], uc[2])
       IN /\ FracGT(PercentageOf(DB, e), FracOfInt(0))
          /\ enrollments[e].status = "completed"

\* C21: mark_lesson_complete leaves progress_percentage at the completed
\* LessonProgress rows of the enrollment, the row of the lesson just marked
\* counted once, over the lessons of the course, times 100 and at most 100,
\* for a first completion and for a repeated one alike
C21_MarkPercentage ==
    \A uc \in Enrolled : \A l \in OwnLessonIds(uc[2]) :
       LET e == EnrollmentOf(DB, uc[1], uc[2])
           r == mark_lesson_complete(DB, uc[1], uc[2], l)
           total == TotalLessons(r.db, uc[2])
           rows == CompletedCount(r.db, e)
       IN PercentageOf(r.db, e)
             = IF total = 0 THEN FracOfInt(0)
               ELSE FracMin(Frac(rows * 100, total), FracOfInt(100))

\* the points, 10 for a question without any, of the questions at the
\* positions in S
RECURSIVE SumPoints(_, _)
SumPoints(questions, S) ==
    IF S = {} THEN 0
    ELSE LET i == CHOOSE x \in S : TRUE
         IN (IF questions[i].points = NoPoints THEN 10 ELSE questions[i].points)
               + SumPoints(questions, S \ {i})

\* C22: an accepted submission reports as points_possible the points of all
\* questions and as points_earned the points of the questions answered with
\* their correct_answer, so 0 <= points_earned <= points_possible and
\* 0 <= score <= 100, and it passed exactly when
\* points_earned * 100 >= quiz_passing_score * points_possible
C22_QuizScoring ==
    \A uc \in Enrolled : \A l \in OwnLessonIds(uc[2]), answers \in Submissions :
       LET r == submit_quiz(DB, uc[1], uc[2], l, answers)
           questions == lessons[l].quiz_questions
           right == {i \in 1..Len(questions) :
                       /\ questions[i].id \in DOMAIN answers
                       /\ answers[questions[i].id] = questions[i].correct_answer}
           possible == SumPoints(questions, 1..Len(questions))
           earned == SumPoints(questions, right)
       IN r.status = 200
             => /\ r.points_possible = possible
                /\ r.points_earned = earned
                /\ 0 <= earned /\ earned <= possible
                /\ FracGE(r.score, FracOfInt(0))
                /\ FracGE(FracOfInt(100), r.score)
                /\ r.passed
                      <=> earned * 100 >= lessons[l].quiz_passing_score * possible

\* C23: when several attempts of an enrollment on a quiz share the highest
\* score, the view's best_score and quiz_passed are those of the earliest of
\* them, also when the tied attempts differ in their passed flags
C23_TieBreakEarliest ==
    \A uc \in Enrolled :
       LET v == ViewOf(DB, uc)
       IN \A i \in 1..Len(v.lessons) :
             LET rows == AttemptsOf(DB, v.enrollment_id, v.lessons[i].lesson_id)
                 top == {a \in rows : \A b \in rows : FracGE(a.score, b.score)}
             IN (v.lessons[i].content_type = "quiz" /\ rows # {})
                   => \E a \in top :
                         /\ \A b \in top : a.nth <= b.nth
                         /\ v.lessons[i].best_score = a.score
                         /\ v.lessons[i].quiz_passed = a.passed

\* two attempts on a quiz tie for the highest score; the earlier failed and
\* the later, after the passing score was lowered, passed
C23_Witness ==
    \E uc \in Enrolled :
       LET e == EnrollmentOf(DB, uc[1], uc[2])
       IN \E l \in OwnLessonIds(uc[2]) :
             \E a, b \in AttemptsOf(DB, e, l) :
                /\ a.nth < b.nth
                /\ a.score = b.score
                /\ ~a.passed /\ b.passed
                /\ \A x \in AttemptsOf(DB, e, l) : FracGE(a.score, x.score)

\* C24: when every lesson of a course with lessons is effectively complete for
\* an enrollment, the enrollment's progress_percentage is 100 and its status
\* is "completed"
C24_CompletionReached ==
    \A uc \in Enrolled :
       LET e == EnrollmentOf(DB, uc[1], uc[2])
           own == OwnLessonIds(uc[2])
       IN (own # {} /\ \A l \in own : EffectivelyComplete(DB, e, l))
             => /\ PercentageOf(DB, e) = FracOfInt(100)
                /\ enrollments[e].status = "completed"

\* C25: the effectively complete lessons of an enrollment form a prefix of the
\* course's lesson order: a lesson is complete only if every lesson before it
\* is
C25_CompletionIsPrefix ==
    \A uc \in Enrolled :
       LET e == EnrollmentOf(DB, uc[1], uc[2])
           ordered == CourseLessons(DB, uc[2])
       IN \A i \in 1..Len(ordered) :
             EffectivelyComplete(DB, e, ordered[i].id)
                => \A j \in 1..(i - 1) : EffectivelyComplete(DB, e, ordered[j].id)

\* C26: when a mark-complete request that found no row for its lesson commits
\* and the lesson still has no row, the stored progress_percentage is the
\* completed LessonProgress rows over the lessons of the course, times 100,
\* whatever other requests for other lessons committed since it read its count
C26_NoLostUpdate ==
    [][\A s \in Sessions :
          LET w == sessions[s]
          IN (/\ w.op = "complete"
              /\ sessions'[s].op = "idle"
              /\ ~w.found
              /\ ProgressRows(DB, w.enrollment_id, w.lesson_id) = {})
                => LET after == [DB EXCEPT !.enrollments = enrollments',
                                           !.lesson_progress = lesson_progress']
                   IN PercentageOf(after, w.enrollment_id)
                         = Frac(CompletedCount(after, w.enrollment_id) * 100,
                                TotalLessons(after, w.course_id))]_vars

\* C27: also when requests are interleaved there is at most one LessonProgress
\* row per enrollment and lesson and at most one Enrollment per user and course
C27_NoDuplicatesInterleaved ==
    /\ \A r \in BagToSet(lesson_progress) : CopiesIn(r, lesson_progress) <= 1
    /\ \A r, q \in BagToSet(lesson_progress) :
          (r.enrollment_id = q.enrollment_id /\ r.lesson_id = q.lesson_id)
             => r = q
    /\ \A i, j \in 1..Len(enrollments) :
          (/\ enrollments[i].user_id = enrollments[j].user_id
           /\ enrollments[i].course_id = enrollments[j].course_id) => i = j

\* C28: no mark-complete and no quiz-submit request lowers the stored
\* progress_percentage of an enrollment
C28_ProgressMonotone ==
    [][\A e \in 1..Len(enrollments) :
          FracGE(enrollments'[e].progress_percentage,
                 enrollments[e].progress_percentage)]_vars

\* C29: with the lessons as authored, a lesson that the progress view reports
\* as completed for an enrollment is reported as completed after every further
\* request
C29_CompletionMonotone ==
    [][\A uc \in Enrolled :
          LET before == ViewOf(DB, uc).lessons
              after == ViewOf(DB', uc).lessons
          IN \A i \in 1..Len(before) :
                before[i].is_completed
                   => /\ after[i].lesson_id = before[i].lesson_id
                      /\ after[i].is_completed]_vars

\* a quiz that was passed and failed afterwards is completed in the view, next
\* to a lesson that was marked complete
C29_Witness ==
    \E uc \in Enrolled :
       LET v == ViewOf(DB, uc)
       IN /\ \E i \in 1..Len(v.lessons) :
                /\ v.lessons[i].content_type = "quiz"
                /\ v.lessons[i].is_completed
                /\ \E a, b \in AttemptsOf(DB, v.enrollment_id,
                                          v.lessons[i].lesson_id) :
                      a.nth < b.nth /\ a.passed /\ ~b.passed
          /\ \E i \in 1..Len(v.lessons) :
                /\ v.lessons[i].content_type # "quiz"
                /\ v.lessons[i].is_completed

\* the LessonProgress rows of enrollment o in tables d, with their numbers
RowsOf(d, o) ==
    [r \in {x \in BagToSet(d.lesson_progress) : x.enrollment_id = o} |->
        CopiesIn(r, d.lesson_progress)]

\* what the tables d hold and the read endpoints answer for the pair uc:
\* its Enrollment, LessonProgress and QuizAttempt rows, its progress view and
\* the can-access decision for every lesson id
Footprint(d, uc) ==
    LET o == EnrollmentOf(d, uc[1], uc[2])
    IN [enrollment |-> IF o = None THEN << >> ELSE << d.enrollments[o] >>,
        rows |-> RowsOf(d, o),
        attempts |-> {a \in d.quiz_attempts : a.enrollment_id = o},
        view |-> get_course_progress(d, uc[1], uc[2]),
        access |-> [l \in 1..(Len(d.lessons) + 1) |->
                      can_access_lesson(d, uc[1], uc[2], l)]]

\* C30: a mark-complete or quiz-submit request of one learner for one course
\* changes no table, or leaves the rows, the stored progress, the progress
\* view and the can-access decisions of every other (user, course) pair as they
\* were
C30_EnrollmentIsolation ==
    \A uc \in Learners \X Courses :
       LET others == (Learners \X Courses) \ {uc}
           before == [o \in others |-> Footprint(DB, o)]
       IN \A l \in 1..(Len(lessons) + 1) :
             /\ LET m == mark_lesson_complete(DB, uc[1], uc[2], l)
                IN \/ m.db = DB
                   \/ \A o \in others : Footprint(m.db, o) = before[o]
             /\ \A answers \in Submissions :
                   LET q == submit_quiz(DB, uc[1], uc[2], l, answers)
                   IN \/ q.db = DB
                      \/ \A o \in others : Footprint(q.db, o) = before[o]

\* two learners are enrolled in the same course, each with a completed row,
\* and one of them has an attempt on a quiz
C30_Witness ==
    /\ \E e, o \in 1..Len(enrollments) :
          /\ e # o
          /\ enrollments[e].course_id = enrollments[o].course_id
          /\ RowsOf(DB, e) # << >>
          /\ RowsOf(DB, o) # << >>
    /\ quiz_attempts # {}

====
